---- MODULE Spec2Model ----
(***************************************************************************)
(* Resume analyzer: the upload -> extract -> submit -> diff -> view        *)
(* workflow of the ResumeUploader component with diff view                 *)
(* (src/unnamed/part_000), the process-wide Langbase client                *)
(* (src/utils/langbase.ts) and the submission path of the plain uploader   *)
(* (src/components/resumeUpload.tsx), which shares that client.            *)
(*                                                                         *)
(* Strings are sequences of one-character strings, so that trim(), string  *)
(* concatenation and word tokenisation are computed, not assumed.          *)
(* A nullable value is <<>> (null / undefined) or <<v>>.                   *)
(* One action is one event-loop task: a handler up to its next await,      *)
(* followed by the React render and the passive effects it triggers.       *)
(***************************************************************************)
EXTENDS Integers, Sequences, FiniteSets, TLC

\* ------------------------------------------------------------------ bounds
\* file reads in flight at one time, and optimize calls started in one run
MaxReads == 2
MaxCalls == 2
\* pages of a generated document, and text items of one of its pages
MaxPages == 3
MaxItems == 1

\* ------------------------------------------------------- string primitives
Null == <<>>
Some(v) == <<v>>

IsSpace(c) == c \in {" ", "\n"}

RECURSIVE TrimStart(_)
TrimStart(s) ==
  IF s = <<>> THEN <<>>
  ELSE IF IsSpace(Head(s)) THEN TrimStart(Tail(s)) ELSE s

RECURSIVE TrimEnd(_)
TrimEnd(s) ==
  IF s = <<>> THEN <<>>
  ELSE IF IsSpace(s[Len(s)]) THEN TrimEnd(SubSeq(s, 1, Len(s) - 1)) ELSE s

\* String.prototype.trim
Trim(s) == TrimEnd(TrimStart(s))

\* Array.prototype.join
RECURSIVE Join(_, _)
Join(items, sep) ==
  IF items = <<>> THEN <<>>
  ELSE IF Len(items) = 1 THEN items[1]
  ELSE items[1] \o sep \o Join(Tail(items), sep)

\* JavaScript truthiness of a string and of a string | null
Truthy(s) == s # <<>>
TruthyOpt(o) == o # Null /\ o[1] # <<>>

\* --------------------------------------------------------------- the files
\* What the user can select.  pages is the list of pages pdf.js reports,
\* each page the list of its text items; valid = FALSE is a file pdf.js
\* cannot parse.
PdfType == "application/pdf"

Files ==
  { [name |-> "cv.pdf",    type |-> PdfType, valid |-> TRUE,
     pages |-> << << <<"b">> >> >>],
    [name |-> "bad.pdf",   type |-> PdfType, valid |-> FALSE,
     pages |-> << >>],
    [name |-> "notes.txt", type |-> "text/plain", valid |-> TRUE,
     pages |-> << >>] }

\* two resumes with different text, for the selections that overlap
RaceFiles ==
  { [name |-> "cv.pdf",  type |-> PdfType, valid |-> TRUE,
     pages |-> << << <<"b">> >> >>],
    [name |-> "two.pdf", type |-> PdfType, valid |-> TRUE,
     pages |-> << << <<"a">>, <<"b">> >> >>] }

\* The valid PDFs of up to MaxPages pages, each page of up to MaxItems text
\* items, an item being "a", "b" or the empty string pdf.js reports for
\* an item without text.
ItemStrings == { <<"a">>, <<"b">>, <<>> }
PageItems == UNION { [1..k -> ItemStrings] : k \in 0..MaxItems }
Documents ==
  { [name |-> "doc.pdf", type |-> PdfType, valid |-> TRUE, pages |-> p] :
      p \in UNION { [1..n -> PageItems] : n \in 1..MaxPages } }

\* FileReader.readAsDataURL: the data URL determines the file's content
ReadAsDataURL(file) == [mime |-> file.type, valid |-> file.valid, pages |-> file.pages]

\* a page loop that ends each page with one line break only
RECURSIVE FullTextOneBreak(_)
FullTextOneBreak(pages) ==
  IF pages = <<>> THEN <<>>
  ELSE Join(Head(pages), <<" ">>) \o <<"\n">> \o FullTextOneBreak(Tail(pages))

\* extractTextFromPDFData, the page loop and the final trim
RECURSIVE FullText(_)
FullText(pages) ==
  IF pages = <<>> THEN <<>>
  ELSE Join(Head(pages), <<" ">>) \o <<"\n", "\n">> \o FullText(Tail(pages))

ExtractText(pdfData) == Trim(FullText(pdfData.pages))
ExtractionFails(pdfData) == ~pdfData.valid

\* ------------------------------------------------------------- diffWords
\* diff.diffWords: tokens are maximal runs of non-space and of space
\* characters; the edit script keeps a longest common subsequence of tokens
\* and reports removals before additions; neighbouring tokens of one kind
\* are merged into one segment.
RECURSIVE Tokenize(_)
Tokenize(s) ==
  IF s = <<>> THEN <<>>
  ELSE LET rest == Tokenize(Tail(s)) IN
       IF rest # <<>> /\ IsSpace(Head(rest)[1]) = IsSpace(Head(s))
       THEN << <<Head(s)>> \o Head(rest) >> \o Tail(rest)
       ELSE << <<Head(s)>> >> \o rest

RECURSIVE LcsLen(_, _)
LcsLen(a, b) ==
  IF a = <<>> \/ b = <<>> THEN 0
  ELSE IF Head(a) = Head(b) THEN 1 + LcsLen(Tail(a), Tail(b))
  ELSE LET x == LcsLen(Tail(a), b)
           y == LcsLen(a, Tail(b))
       IN IF x >= y THEN x ELSE y

Seg(kind, value) == [kind |-> kind, value |-> value]

PushSeg(kind, tok, segs) ==
  IF segs # <<>> /\ Head(segs).kind = kind
  THEN <<Seg(kind, tok \o Head(segs).value)>> \o Tail(segs)
  ELSE <<Seg(kind, tok)>> \o segs

RECURSIVE DiffTokens(_, _)
DiffTokens(a, b) ==
  IF a = <<>> /\ b = <<>> THEN <<>>
  ELSE IF a = <<>> THEN PushSeg("added", Head(b), DiffTokens(a, Tail(b)))
  ELSE IF b = <<>> THEN PushSeg("removed", Head(a), DiffTokens(Tail(a), b))
  ELSE IF Head(a) = Head(b)
       THEN PushSeg("unchanged", Head(a), DiffTokens(Tail(a), Tail(b)))
  ELSE IF LcsLen(Tail(a), b) >= LcsLen(a, Tail(b))
       THEN PushSeg("removed", Head(a), DiffTokens(Tail(a), b))
       ELSE PushSeg("added", Head(b), DiffTokens(a, Tail(b)))

DiffWords(before, after) == DiffTokens(Tokenize(before), Tokenize(after))

\* ------------------------------------------------------------------ inputs
\* what the user types into the job-description field
JobDescriptions == { <<>>, <<" ">>, <<"j">> }

\* what the remote pipeline streams back: the list of its content events
Streams == { <<>>, << <<"a">>, <<" ", "c">> >> }

\* the thread identifier a response carries, if any
Undefined == "undefined"
ResponseThreads == { Undefined, "t1", "t2" }
\* ... when a single session talks to the pipeline
SessionThreads == { Undefined, "t1" }

\* the texts the plain uploader can hold when its submit button is pressed
PlainTexts == { <<>> } \cup { ExtractText(ReadAsDataURL(f)) : f \in { g \in Files : g.valid } }

ViewModes == { "original", "optimized", "diff" }

\* ------------------------------------------------------------------- state
VARIABLES
  pdfFile,          \* useState<string | null>: the data URL previewed
  fileName,         \* useState<string>
  isLoading,        \* useState<boolean>
  extractedText,    \* useState<string>
  isSubmitting,     \* useState<boolean>
  optimizedResume,  \* useState<string | null>
  diffResult,       \* useState<Array<{added, removed, value}>>
  viewMode,         \* useState<"original" | "optimized" | "diff">
  dialogOpen,       \* the browser's file dialog of the file input is open
  reads,            \* the processFile invocations in flight: file and position
  plainMessage,     \* langbase.ts: the module-level conversation log
  threadId,         \* langbase.ts: the module-level thread identifier
  calls,            \* the chatWithLangbase invocations in flight: caller and position
  plainSubmitting,  \* isSubmitting of the plain uploader (resumeUpload.tsx)
  alertMsg,         \* the alert() the last task raised, "" if none
  lastEvent         \* the task that ran last: [op, arg]

view == <<pdfFile, fileName, isLoading, extractedText, isSubmitting,
          optimizedResume, diffResult, viewMode>>
client == <<plainMessage, threadId, calls>>
vars == <<pdfFile, fileName, isLoading, extractedText, isSubmitting,
          optimizedResume, diffResult, viewMode, dialogOpen, reads,
          plainMessage, threadId, calls, plainSubmitting, alertMsg, lastEvent>>

Event(op, arg) == [op |-> op, arg |-> arg]

Init ==
  /\ pdfFile = Null
  /\ fileName = ""
  /\ isLoading = FALSE
  /\ extractedText = <<>>
  /\ isSubmitting = FALSE
  /\ optimizedResume = Null
  /\ diffResult = <<>>
  /\ viewMode = "original"
  /\ dialogOpen = FALSE
  /\ reads = <<>>
  /\ plainMessage = <<>>
  /\ threadId = Undefined
  /\ calls = <<>>
  /\ plainSubmitting = FALSE
  /\ alertMsg = ""
  /\ lastEvent = Event("mount", Null)

\* ------------------------------------------------------- render conditions
\* the drop zone and the file input are rendered only while pdfFile is null,
\* the document card (toggles, Upload New, Remove, job description, submit)
\* only while it is not
DropZoneRendered == pdfFile = Null
CardRendered == pdfFile # Null

\* a button that forgets the isSubmitting half of its disabled condition
SubmitDisabledNoFlag == pdfFile = Null

\* {(isLoading || isSubmitting) && (<div className="fixed inset-0 ... z-50">)}:
\* the busy overlay covers the page.  It takes the pointer's events, so
\* nothing can be dropped on the drop zone under it; it disables no control,
\* so a rendered button still answers the keyboard, and a click dispatched
\* on the drop zone itself (assistive technology, a script) still reaches
\* its onClick.
OverlayShown == isLoading \/ isSubmitting

\* disabled={isSubmitting || !pdfFile}
SubmitDisabled == isSubmitting \/ pdfFile = Null

\* the view toggles are rendered inside {optimizedResume && (...)}
TogglesRendered == CardRendered /\ TruthyOpt(optimizedResume)

\* ---------------------------------------------------------- the diff effect
\* useEffect(..., [extractedText, optimizedResume]): after a render in which
\* a dependency changed, regenerate the diff if both are truthy
DiffEffect(oldText, oldOpt, newText, newOpt, oldDiff) ==
  IF <<oldText, oldOpt>> # <<newText, newOpt>> /\ Truthy(newText) /\ TruthyOpt(newOpt)
  THEN DiffWords(newText, newOpt[1])
  ELSE oldDiff

\* --------------------------------------------------------- file selection
\* a processFile that takes any file
IsPdfAnyType(file) == TRUE

\* file.type === "application/pdf"
IsPdf(file) == file.type = PdfType

Read(file, stage) == [file |-> file, stage |-> stage]

\* a sequence without its i-th element
Without(seq, i) == SubSeq(seq, 1, i - 1) \o SubSeq(seq, i + 1, Len(seq))

\* processFile(file), up to fileReader.readAsDataURL(file)
processFile(file) ==
  IF IsPdf(file)
  THEN /\ Len(reads) < MaxReads
       /\ fileName' = file.name
       /\ isLoading' = TRUE
       /\ reads' = Append(reads, Read(file, "reading"))
       /\ alertMsg' = ""
  ELSE /\ alertMsg' = "Please select a PDF file"
       /\ UNCHANGED <<fileName, isLoading, reads>>

\* handleUploadClick: the drop zone's onClick and the Upload New button.
\* fileInputRef.current is the file input, which is mounted only while the
\* drop zone is rendered; otherwise the ref is null and nothing happens.
\* The file dialog is modal: while it is open the page takes no input.
handleUploadClick ==
  /\ ~dialogOpen
  /\ dialogOpen' = (IF DropZoneRendered THEN TRUE ELSE dialogOpen)
  /\ alertMsg' = ""
  /\ lastEvent' = Event("handleUploadClick", CardRendered)
  /\ UNCHANGED <<view, reads, client, plainSubmitting>>

\* the user dismisses the file dialog without choosing a file
dialogCancel ==
  /\ dialogOpen
  /\ dialogOpen' = FALSE
  /\ alertMsg' = ""
  /\ lastEvent' = Event("dialogCancel", Null)
  /\ UNCHANGED <<view, reads, client, plainSubmitting>>

\* handleFileChange: the user chooses a file in the dialog
handleFileChange(file) ==
  /\ DropZoneRendered
  /\ dialogOpen
  /\ dialogOpen' = FALSE
  /\ processFile(file)
  /\ lastEvent' = Event("handleFileChange", file)
  /\ UNCHANGED <<pdfFile, extractedText, isSubmitting, optimizedResume,
                 diffResult, viewMode, client, plainSubmitting>>

\* handleDrop: the user drops a file on the drop zone
handleDrop(file) ==
  /\ DropZoneRendered
  /\ ~OverlayShown
  /\ ~dialogOpen
  /\ processFile(file)
  /\ lastEvent' = Event("handleDrop", file)
  /\ UNCHANGED <<pdfFile, extractedText, isSubmitting, optimizedResume,
                 diffResult, viewMode, dialogOpen, client, plainSubmitting>>

\* fileReader.onload, up to the await of extractTextFromPDFData.  The render
\* that follows setPdfFile unmounts the file input, and its dialog with it.
fileReaderOnload(i) ==
  /\ reads[i].stage = "reading"
  /\ pdfFile' = Some(ReadAsDataURL(reads[i].file))
  /\ reads' = [reads EXCEPT ![i].stage = "extracting"]
  /\ dialogOpen' = FALSE
  /\ alertMsg' = ""
  /\ lastEvent' = Event("fileReaderOnload", Null)
  /\ UNCHANGED <<fileName, isLoading, extractedText, isSubmitting,
                 optimizedResume, diffResult, viewMode, client, plainSubmitting>>

\* the FileReader fails: no onerror handler is installed
fileReaderError(i) ==
  /\ reads[i].stage = "reading"
  /\ reads' = Without(reads, i)
  /\ alertMsg' = ""
  /\ lastEvent' = Event("fileReaderError", Null)
  /\ UNCHANGED <<view, dialogOpen, client, plainSubmitting>>

\* extractTextFromPDFData resolved: try { setExtractedText } finally { ... }
extractResolved(i) ==
  /\ reads[i].stage = "extracting"
  /\ ~ExtractionFails(ReadAsDataURL(reads[i].file))
  /\ extractedText' = ExtractText(ReadAsDataURL(reads[i].file))
  /\ isLoading' = FALSE
  /\ diffResult' = DiffEffect(extractedText, optimizedResume,
                              extractedText', optimizedResume, diffResult)
  /\ reads' = Without(reads, i)
  /\ alertMsg' = ""
  /\ lastEvent' = Event("extractResolved", Null)
  /\ UNCHANGED <<pdfFile, fileName, isSubmitting, optimizedResume, viewMode,
                 dialogOpen, client, plainSubmitting>>

\* extractTextFromPDFData rejected: catch { console.error } finally { ... }
extractRejected(i) ==
  /\ reads[i].stage = "extracting"
  /\ ExtractionFails(ReadAsDataURL(reads[i].file))
  /\ isLoading' = FALSE
  /\ reads' = Without(reads, i)
  /\ alertMsg' = ""
  /\ lastEvent' = Event("extractRejected", Null)
  /\ UNCHANGED <<pdfFile, fileName, extractedText, isSubmitting,
                 optimizedResume, diffResult, viewMode, dialogOpen, client,
                 plainSubmitting>>

\* a resetUpload that forgets setDiffResult([])
ResetValuesKeepDiff ==
  [pdfFile |-> Null, fileName |-> "", extractedText |-> <<>>,
   optimizedResume |-> Null, diffResult |-> diffResult, viewMode |-> "original"]

\* what resetUpload sets
ResetValues ==
  [pdfFile |-> Null, fileName |-> "", extractedText |-> <<>>,
   optimizedResume |-> Null, diffResult |-> <<>>, viewMode |-> "original"]

\* resetUpload: the Remove button
resetUpload ==
  /\ CardRendered
  /\ pdfFile' = ResetValues.pdfFile
  /\ fileName' = ResetValues.fileName
  /\ extractedText' = ResetValues.extractedText
  /\ optimizedResume' = ResetValues.optimizedResume
  /\ diffResult' = DiffEffect(extractedText, optimizedResume, extractedText',
                              optimizedResume', ResetValues.diffResult)
  /\ viewMode' = ResetValues.viewMode
  /\ alertMsg' = ""
  /\ lastEvent' = Event("resetUpload", viewMode)
  /\ UNCHANGED <<isLoading, isSubmitting, dialogOpen, reads, client,
                 plainSubmitting>>

\* the Original / Optimized / Changes buttons: setViewMode(mode)
setViewMode(mode) ==
  /\ TogglesRendered
  /\ viewMode' = mode
  /\ alertMsg' = ""
  /\ lastEvent' = Event("setViewMode", mode)
  /\ UNCHANGED <<pdfFile, fileName, isLoading, extractedText, isSubmitting,
                 optimizedResume, diffResult, dialogOpen, reads, client,
                 plainSubmitting>>

\* ------------------------------------------------------ the Langbase client
\* a client that puts a separator between the resume and the description
MessageSeparated(message, description) ==
  [role |-> "user", content |-> message \o <<"\n">> \o description]

\* { role: "user", content: message + description }
Message(message, description) == [role |-> "user", content |-> message \o description]

\* ...(threadId && { threadId })
SentThread(current) == current

\* a client that stores the identifier of every response
StoreThreadAlways(current, received) ==
  IF received # Undefined THEN received ELSE current

\* if (!threadId && response.threadId) threadId = response.threadId
StoreThread(current, received) ==
  IF current = Undefined /\ received # Undefined THEN received ELSE current

\* before is what the caller displayed when it submitted (kept for the
\* statements about rollback; the program does not store it)
Call(owner, stage, thread, messages, before) ==
  [owner |-> owner, stage |-> stage, threadId |-> thread, messages |-> messages,
   before |-> before, pending |-> <<>>, result |-> <<>>]

Displayed == <<extractedText, optimizedResume, diffResult, viewMode>>

\* chatWithLangbase(message, description), up to the await of pipe.run
chatStart(owner, message, description, before) ==
  /\ Len(plainMessage) < MaxCalls
  /\ plainMessage' = Append(plainMessage, Message(message, description))
  /\ calls' = Append(calls, Call(owner, "run", SentThread(threadId), plainMessage', before))
  /\ UNCHANGED threadId

\* ---------------------------------------------------------------- submission
NoAlert == ""
NeedResume == "Please upload a resume first"
NeedDescription == "Please enter a job description"
RequestFailed == "Error processing your request. Please try again."

\* a handleSubmit that tests the job description without trim()
SubmitRejectionNoTrim(text, jobDescription) ==
  IF ~Truthy(text) THEN NeedResume
  ELSE IF ~Truthy(jobDescription) THEN NeedDescription
  ELSE NoAlert

\* the two early returns of handleSubmit: the alert raised, if any
SubmitRejection(text, jobDescription) ==
  IF ~Truthy(text) THEN NeedResume
  ELSE IF ~Truthy(Trim(jobDescription)) THEN NeedDescription
  ELSE NoAlert

\* handleSubmit, up to the await of chatWithLangbase
handleSubmit(jobDescription) ==
  /\ ~SubmitDisabled
  /\ alertMsg' = SubmitRejection(extractedText, jobDescription)
  /\ lastEvent' = Event("handleSubmit", jobDescription)
  /\ IF alertMsg' # NoAlert
     THEN UNCHANGED <<isSubmitting, client>>
     ELSE /\ isSubmitting' = TRUE
          /\ chatStart("uploader", extractedText, jobDescription, Displayed)
  /\ UNCHANGED <<pdfFile, fileName, isLoading, extractedText, optimizedResume,
                 diffResult, viewMode, dialogOpen, reads, plainSubmitting>>

\* handleSubmit of the plain uploader (resumeUpload.tsx), whose extracted
\* text is text and whose button is disabled={isSubmitting}
plainHandleSubmit(text, jobDescription) ==
  /\ ~plainSubmitting
  /\ alertMsg' = SubmitRejection(text, jobDescription)
  /\ lastEvent' = Event("plainHandleSubmit",
                        [text |-> text, jobDescription |-> jobDescription])
  /\ IF alertMsg' # NoAlert
     THEN UNCHANGED <<plainSubmitting, client>>
     ELSE /\ plainSubmitting' = TRUE
          /\ chatStart("plain", text, jobDescription, Null)
  /\ UNCHANGED <<view, dialogOpen, reads>>

\* pipe.run resolved with { threadId, stream }: the thread identifier is
\* stored and the runner's listeners are installed
pipeRunResolved(i, received, stream) ==
  /\ calls[i].stage = "run"
  /\ threadId' = StoreThread(threadId, received)
  /\ calls' = [calls EXCEPT ![i].stage = "stream", ![i].pending = stream,
                            ![i].before = Null]
  /\ alertMsg' = NoAlert
  /\ lastEvent' = Event("pipeRunResolved", received)
  /\ UNCHANGED <<view, dialogOpen, reads, plainMessage, plainSubmitting>>

\* a failure path that also sends the view back to the preview
submitFailedToOriginal(owner) ==
  /\ alertMsg' = RequestFailed
  /\ IF owner = "uploader"
     THEN isSubmitting' = FALSE /\ viewMode' = "original" /\ UNCHANGED plainSubmitting
     ELSE plainSubmitting' = FALSE /\ UNCHANGED <<isSubmitting, viewMode>>
  /\ UNCHANGED <<pdfFile, fileName, isLoading, extractedText, optimizedResume,
                 diffResult>>

\* the continuation of handleSubmit after chatWithLangbase threw:
\* catch { alert } finally { setIsSubmitting(false) }
submitFailed(owner) ==
  /\ alertMsg' = RequestFailed
  /\ IF owner = "uploader"
     THEN isSubmitting' = FALSE /\ UNCHANGED plainSubmitting
     ELSE plainSubmitting' = FALSE /\ UNCHANGED isSubmitting
  /\ UNCHANGED <<pdfFile, fileName, isLoading, extractedText, optimizedResume,
                 diffResult, viewMode>>

\* pipe.run rejected: chatWithLangbase catches and rethrows
pipeRunRejected(i) ==
  /\ calls[i].stage = "run"
  /\ calls' = Without(calls, i)
  /\ submitFailed(calls[i].owner)
  /\ lastEvent' = Event("pipeRunRejected", [owner |-> calls[i].owner, before |-> calls[i].before])
  /\ UNCHANGED <<dialogOpen, reads, plainMessage, threadId>>

\* runner.on("content", ...): result += content
streamContent(i) ==
  /\ calls[i].stage = "stream"
  /\ calls[i].pending # <<>>
  /\ calls' = [calls EXCEPT ![i].result = @ \o Head(calls[i].pending),
                            ![i].pending = Tail(@)]
  /\ alertMsg' = NoAlert
  /\ lastEvent' = Event("streamContent", calls[i].owner)
  /\ UNCHANGED <<view, dialogOpen, reads, plainMessage, threadId, plainSubmitting>>

\* the continuation of handleSubmit after chatWithLangbase returned:
\* setOptimizedResume, setViewMode, finally setIsSubmitting(false), and the
\* diff effect of the render that follows
submitSucceeded(owner, optimizedText) ==
  /\ alertMsg' = NoAlert
  /\ IF owner = "uploader"
     THEN /\ optimizedResume' = Some(optimizedText)
          /\ viewMode' = "optimized"
          /\ isSubmitting' = FALSE
          /\ diffResult' = DiffEffect(extractedText, optimizedResume,
                                      extractedText, optimizedResume', diffResult)
          /\ UNCHANGED plainSubmitting
     ELSE /\ plainSubmitting' = FALSE
          /\ UNCHANGED <<optimizedResume, viewMode, isSubmitting, diffResult>>
  /\ UNCHANGED <<pdfFile, fileName, isLoading, extractedText>>

\* runner.on("end", ...): the promise resolves, chatWithLangbase returns result
streamEnd(i) ==
  /\ calls[i].stage = "stream"
  /\ calls[i].pending = <<>>
  /\ calls' = Without(calls, i)
  /\ submitSucceeded(calls[i].owner, calls[i].result)
  /\ lastEvent' = Event("streamEnd", calls[i].owner)
  /\ UNCHANGED <<dialogOpen, reads, plainMessage, threadId>>

\* the stream errors: only "content" and "end" have listeners, so the
\* promise chatWithLangbase awaits never settles
streamError(i) ==
  /\ calls[i].stage = "stream"
  /\ calls' = [calls EXCEPT ![i].stage = "stalled", ![i].pending = <<>>,
                            ![i].result = <<>>]
  /\ alertMsg' = NoAlert
  /\ lastEvent' = Event("streamError", calls[i].owner)
  /\ UNCHANGED <<view, dialogOpen, reads, plainMessage, threadId, plainSubmitting>>

\* ------------------------------------------------------------ specification
\* the remote pipeline and the client's continuations, the responses
\* carrying a thread identifier of the set threads
ClientNext(threads) ==
  \/ \E i \in 1..Len(calls), t \in threads, s \in Streams : pipeRunResolved(i, t, s)
  \/ \E i \in 1..Len(calls) : pipeRunRejected(i)
  \/ \E i \in 1..Len(calls) : streamContent(i)
  \/ \E i \in 1..Len(calls) : streamEnd(i)
  \/ \E i \in 1..Len(calls) : streamError(i)

\* the uploader with diff view alone on the page
Next ==
  \/ handleUploadClick
  \/ dialogCancel
  \/ \E file \in Files : handleFileChange(file)
  \/ \E file \in Files : handleDrop(file)
  \/ \E i \in 1..Len(reads) : fileReaderOnload(i)
  \/ \E i \in 1..Len(reads) : fileReaderError(i)
  \/ \E i \in 1..Len(reads) : extractResolved(i)
  \/ \E i \in 1..Len(reads) : extractRejected(i)
  \/ resetUpload
  \/ \E mode \in ViewModes : setViewMode(mode)
  \/ \E jd \in JobDescriptions : handleSubmit(jd)
  \/ ClientNext(SessionThreads)

Spec == Init /\ [][Next]_vars

\* both uploaders are mounted and share the client; the uploader with diff
\* view receives its documents by drag and drop and keeps them
NextShared ==
  \/ \E file \in Files : handleDrop(file)
  \/ \E i \in 1..Len(reads) : fileReaderOnload(i)
  \/ \E i \in 1..Len(reads) : extractResolved(i)
  \/ \E i \in 1..Len(reads) : extractRejected(i)
  \/ \E jd \in JobDescriptions : handleSubmit(jd)
  \/ \E text \in PlainTexts, jd \in JobDescriptions : plainHandleSubmit(text, jd)
  \/ ClientNext(ResponseThreads)

SpecShared == Init /\ [][NextShared]_vars

\* the uploader is given one of the generated documents
NextExtract ==
  \/ DropZoneRendered /\ ~OverlayShown /\ \E file \in Documents : handleDrop(file)
  \/ \E i \in 1..Len(reads) : fileReaderOnload(i)
  \/ \E i \in 1..Len(reads) : extractResolved(i)

SpecExtract == Init /\ [][NextExtract]_vars

\* the uploader is given the two resumes, by drop or through the dialog, and
\* nothing is removed
NextRace ==
  \/ handleUploadClick
  \/ dialogCancel
  \/ \E file \in RaceFiles : handleFileChange(file)
  \/ \E file \in RaceFiles : handleDrop(file)
  \/ \E i \in 1..Len(reads) : fileReaderOnload(i)
  \/ \E i \in 1..Len(reads) : extractResolved(i)

SpecRace == Init /\ [][NextRace]_vars

\* -------------------------------------------------------------------- claims
\* a blank or whitespace-only string
Blank(str) == \A k \in 1..Len(str) : IsSpace(str[k])

InFlight(owner) == { i \in 1..Len(calls) : calls[i].owner = owner }

\* C1: a submission invoked while ExtractedText is empty, or with a blank or
\* whitespace-only job description, starts no optimize call, appends nothing
\* to the conversation log and leaves ExtractedText, OptimizedText,
\* DiffSegments, ViewMode and the submitting flag unchanged.
C1_RejectedSubmissionChangesNothing ==
  [][(lastEvent'.op = "handleSubmit"
        /\ (extractedText = <<>> \/ Blank(lastEvent'.arg)))
     => UNCHANGED <<calls, plainMessage, threadId, extractedText,
                    optimizedResume, diffResult, viewMode, isSubmitting>>]_vars

\* a whitespace-only job description was submitted for a resume with text
C1_Witness ==
  /\ lastEvent = Event("handleSubmit", <<" ">>)
  /\ Truthy(extractedText)
  /\ alertMsg = NeedDescription

\* C2: after resetUpload ExtractedText, OptimizedText and DiffSegments are
\* empty, ViewMode is original and the document (pdfFile, fileName) is absent.
C2_ResetClearsEverything ==
  lastEvent.op = "resetUpload"
    => /\ extractedText = <<>>
       /\ optimizedResume = Null
       /\ diffResult = <<>>
       /\ viewMode = "original"
       /\ pdfFile = Null
       /\ fileName = ""

\* Remove was pressed while the diff view of an optimized resume was shown
C2_Witness == lastEvent = Event("resetUpload", "diff")

\* C3 (as claimed): Upload New, pressed while a document is loaded, clears
\* ExtractedText, OptimizedText, DiffSegments and ViewMode and opens the file
\* dialog.
C3_UploadNewClearsAndOpens ==
  lastEvent = Event("handleUploadClick", TRUE)
    => /\ extractedText = <<>>
       /\ optimizedResume = Null
       /\ diffResult = <<>>
       /\ viewMode = "original"
       /\ dialogOpen

\* C4 (as claimed): when an optimize call of the uploader returns, ViewMode is
\* optimized and DiffSegments is non-empty if the extracted text and the
\* returned text differ.
C4_SuccessShowsDiff ==
  lastEvent = Event("streamEnd", "uploader")
    => /\ viewMode = "optimized"
       /\ (extractedText # optimizedResume[1] => diffResult # <<>>)

\* C5 (as claimed): DiffSegments is empty or the diff of the current
\* ExtractedText and OptimizedText.
C5_DiffNeverStale ==
  \/ diffResult = <<>>
  \/ /\ optimizedResume # Null
     /\ diffResult = DiffWords(extractedText, optimizedResume[1])

\* C6: at most one optimize call of the uploader is in flight.
C6_OneCallInFlight == Cardinality(InFlight("uploader")) <= 1

\* a new document finished loading while the call of the one before it,
\* removed meanwhile, is still in flight
C6_Witness ==
  /\ lastEvent.op = "extractResolved"
  /\ Truthy(extractedText)
  /\ CardRendered
  /\ Cardinality(InFlight("uploader")) = 1

\* C7 (as claimed): when the optimize call fails, ExtractedText, OptimizedText,
\* DiffSegments and ViewMode are what they were just before the submission,
\* the submitting flag is false and the machine is in Ready{original}.
C7_FailureRollsBackToOriginal ==
  (lastEvent.op = "pipeRunRejected" /\ lastEvent.arg.owner = "uploader")
    => /\ Displayed = lastEvent.arg.before
       /\ ~isSubmitting
       /\ viewMode = "original"

\* C7 (amended): the failure of the optimize call changes none of
\* ExtractedText, OptimizedText, DiffSegments and ViewMode and sets the
\* submitting flag to false.
C7_FailureChangesNothing ==
  [][(lastEvent'.op = "pipeRunRejected" /\ lastEvent'.arg.owner = "uploader")
     => UNCHANGED Displayed /\ ~isSubmitting']_vars

\* a resubmission failed while the optimized resume of the first was shown
C7_Witness ==
  /\ lastEvent.op = "pipeRunRejected"
  /\ lastEvent.arg.owner = "uploader"
  /\ viewMode = "optimized"
  /\ TruthyOpt(optimizedResume)
  /\ alertMsg = RequestFailed

\* C8 (as claimed): when the extraction fails, the loading flag is false and
\* ExtractedText is empty.
C8_FailedExtractionLeavesNoText ==
  lastEvent.op = "extractRejected" => ~isLoading /\ extractedText = <<>>

\* C9: selecting a file that is not a PDF, in the dialog or by dropping it,
\* leaves pdfFile, fileName, ExtractedText, OptimizedText, DiffSegments,
\* ViewMode and the loading flag unchanged and starts no read.
C9_NonPdfChangesNothing ==
  [][(lastEvent'.op \in {"handleFileChange", "handleDrop"}
        /\ lastEvent'.arg.type # PdfType)
     => UNCHANGED <<pdfFile, fileName, extractedText, optimizedResume,
                    diffResult, viewMode, isLoading, reads>>]_vars

\* a file that is not a PDF was chosen while a PDF was being read
C9_Witness ==
  /\ lastEvent.op = "handleFileChange"
  /\ lastEvent.arg.type # PdfType
  /\ reads # <<>>
  /\ isLoading

\* C10: the thread identifier is stored from the first response that carries
\* one, is never changed afterwards, and every call started sends the stored
\* identifier.
C10_ThreadStoredOnce ==
  [][/\ threadId # Undefined => threadId' = threadId
     /\ (lastEvent'.op = "pipeRunResolved" /\ threadId = Undefined)
          => threadId' = lastEvent'.arg
     /\ Len(plainMessage') > Len(plainMessage)
          => calls'[Len(calls')].threadId = threadId]_vars

\* two calls overlapped, both started without an identifier; the first
\* response brought t1, the second t2
C10_Witness ==
  /\ lastEvent = Event("pipeRunResolved", "t2")
  /\ threadId = "t1"
  /\ \E i \in 1..Len(calls) : calls[i].stage = "stream" /\ calls[i].threadId = Undefined

\* C11: a step that starts an optimize call appends exactly one message to
\* the conversation log, of role user and with the resume text directly
\* followed by the job description as content, and sends the whole log; no
\* other step changes the log.  So the log is never truncated, every earlier
\* log is a prefix of it, and its length is the number of calls started.
C11_LogGrowsByOneMessagePerCall ==
  [][LET n == Len(plainMessage)
         submitted ==
           IF lastEvent'.op = "handleSubmit"
           THEN extractedText \o lastEvent'.arg
           ELSE lastEvent'.arg.text \o lastEvent'.arg.jobDescription
     IN /\ Len(plainMessage') >= n
        /\ SubSeq(plainMessage', 1, n) = plainMessage
        /\ IF Len(calls') > Len(calls)
           THEN /\ Len(plainMessage') = n + 1
                /\ plainMessage'[n + 1] = [role |-> "user", content |-> submitted]
                /\ calls'[Len(calls')].messages = plainMessage'
           ELSE plainMessage' = plainMessage]_vars

\* the uploader started the second call while the first, of the plain
\* uploader, was still in flight, and sent both messages
C11_Witness ==
  /\ lastEvent = Event("handleSubmit", <<"j">>)
  /\ alertMsg = NoAlert
  /\ Len(calls) = 2
  /\ calls[1].owner = "plain"
  /\ Len(plainMessage) = 2
  /\ calls[2].messages = plainMessage

\* String.prototype.split("\n\n"): the pieces between the blank-line
\* separators, scanned from the left
RECURSIVE SplitBlankLine(_, _)
SplitBlankLine(str, piece) ==
  IF str = <<>> THEN <<piece>>
  ELSE IF Len(str) >= 2 /\ str[1] = "\n" /\ str[2] = "\n"
       THEN <<piece>> \o SplitBlankLine(SubSeq(str, 3, Len(str)), <<>>)
       ELSE SplitBlankLine(Tail(str), Append(piece, Head(str)))

\* the text of each page, in page order
PageTexts(pages) == [i \in 1..Len(pages) |-> Join(pages[i], <<" ">>)]

\* the text neither begins nor ends with white space and has no blank line
Solid(text) ==
  /\ text # <<>>
  /\ ~IsSpace(text[1])
  /\ ~IsSpace(text[Len(text)])
  /\ Len(SplitBlankLine(text, <<>>)) = 1

\* C12 (as claimed): the text extracted from a document of N pages consists
\* of the N page texts in page order with N-1 blank-line separators between
\* them.
C12_PagesSeparatedInOrder ==
  lastEvent.op = "extractResolved"
    => SplitBlankLine(extractedText, <<>>) = PageTexts(pdfFile[1].pages)

\* C12 (amended): ... provided the first and the last page have text that
\* neither begins nor ends with white space, and no page text holds a blank
\* line.
C12_SolidPagesSeparatedInOrder ==
  LET texts == PageTexts(pdfFile[1].pages) IN
  (/\ lastEvent.op = "extractResolved"
   /\ Solid(texts[1])
   /\ Solid(texts[Len(texts)])
   /\ \A i \in 1..Len(texts) : Len(SplitBlankLine(texts[i], <<>>)) = 1)
    => SplitBlankLine(extractedText, <<>>) = texts

\* a document of three pages, the second without text, was extracted
C12_Witness ==
  /\ lastEvent.op = "extractResolved"
  /\ pdfFile[1].pages = << << <<"a">> >>, << >>, << <<"b">> >> >>
  /\ extractedText = <<"a", "\n", "\n", "\n", "\n", "b">>

\* String.prototype concatenation of the content events of a stream
Accumulated(stream) == Join(stream, <<>>)

\* C13 (as claimed): an optimize call of the uploader ends when the stream
\* ends or errors: at the end of the stream it returns the accumulated text,
\* at an error of the remote call or of the stream it fails, and either way
\* the submitting flag is false again.
C13_CallEndsOrFails ==
  /\ lastEvent = Event("streamEnd", "uploader")
       => /\ ~isSubmitting
          /\ \E s \in Streams : optimizedResume = Some(Accumulated(s))
  /\ (lastEvent.op = "pipeRunRejected" /\ lastEvent.arg.owner = "uploader")
       => ~isSubmitting /\ alertMsg = RequestFailed
  /\ lastEvent = Event("streamError", "uploader")
       => ~isSubmitting /\ alertMsg = RequestFailed

\* the file selected last, whose name fileName holds
LastSelected == { f \in RaceFiles : f.name = fileName }

\* C14 (as claimed): the loading flag is true while a read or an extraction
\* is in flight, and once none is, the previewed document and ExtractedText
\* are those of the file selected last.
C14_NewFileWins ==
  /\ reads # <<>> => isLoading
  /\ (reads = <<>> /\ fileName # "")
       => \E f \in LastSelected :
            /\ pdfFile = Some(ReadAsDataURL(f))
            /\ extractedText = ExtractText(ReadAsDataURL(f))

\* C15 (as claimed): a non-empty ExtractedText or OptimizedText, or a ViewMode
\* other than original, implies that a document is present.
C15_ContentImpliesDocument ==
  (Truthy(extractedText) \/ TruthyOpt(optimizedResume) \/ viewMode # "original")
    => pdfFile # Null

====
